---- MODULE Spec2Model ----
(***************************************************************************)
(* Radio Code Calculator SDK (JavaScript): the offline validation of       *)
(* RadioModel and the request/response handling of RadioCodeCalculator.    *)
(*                                                                         *)
(* JS strings are sequences of one-character strings.  A JS value that     *)
(* may be a string, an object, null or undefined is a record with a type   *)
(* tag t.  A call's outcome is a returned value or a thrown exception.     *)
(***************************************************************************)
EXTENDS Integers, Sequences, FiniteSets, TLC

(***************************************************************************)
(* RadioErrors                                                             *)
(***************************************************************************)
ERROR_CONNECTION == -1
SUCCESS == 0
INVALID_INPUT == 1
INVALID_COMMAND == 2
INVALID_RADIO_MODEL == 3
INVALID_SERIAL_LENGTH == 4
INVALID_SERIAL_PATTERN == 5
INVALID_SERIAL_NOT_SUPPORTED == 6
INVALID_EXTRA_LENGTH == 7
INVALID_EXTRA_PATTERN == 8
INVALID_LICENSE == 100

(***************************************************************************)
(* JS values and outcomes                                                  *)
(***************************************************************************)
JsString(s) == [t |-> "string", s |-> s, m |-> <<>>]
JsObject(m) == [t |-> "object", s |-> <<>>, m |-> m]
JsNull == [t |-> "null", s |-> <<>>, m |-> <<>>]
JsUndefined == [t |-> "undefined", s |-> <<>>, m |-> <<>>]

\* typeof: null is reported as "object"
JsTypeof(v) == IF v.t = "null" THEN "object" ELSE v.t

\* a parameter with a default value: the default replaces undefined only
DefaultParam(arg, dflt) == IF arg.t = "undefined" THEN dflt ELSE arg

\* A length is a number or undefined (an argument left out, a field a
\* response lacks).  undefined is written as -1: like undefined it differs
\* from 0 and from every string length, the only comparisons made with it.
NumberUndefined == -1
DefaultNumber(arg, dflt) == IF arg = NumberUndefined THEN dflt ELSE arg

Return(code) == [kind |-> "return", code |-> code]
Throw(exc) == [kind |-> "throw", exc |-> exc]
Returns(outcome, code) == outcome.kind = "return" /\ outcome.code = code

(***************************************************************************)
(* Characters and their code units (the order a character class range      *)
(* such as [0-9] or [a-z] is taken in)                                     *)
(***************************************************************************)
DigitChars == <<"0", "1", "2", "3", "4", "5", "6", "7", "8", "9">>
UpperChars == <<"A", "B", "C", "D", "E", "F", "G", "H", "I", "J", "K", "L", "M",
                "N", "O", "P", "Q", "R", "S", "T", "U", "V", "W", "X", "Y", "Z">>
LowerChars == <<"a", "b", "c", "d", "e", "f", "g", "h", "i", "j", "k", "l", "m",
                "n", "o", "p", "q", "r", "s", "t", "u", "v", "w", "x", "y", "z">>
OtherChars == <<" ", "-", "_">>

Range(seq) == {seq[i] : i \in 1..Len(seq)}
IndexIn(seq, c) == CHOOSE i \in 1..Len(seq) : seq[i] = c

\* the code units, tabulated once
CodeUnits ==
    [c \in Range(DigitChars) |-> 47 + IndexIn(DigitChars, c)]
        @@ [c \in Range(UpperChars) |-> 64 + IndexIn(UpperChars, c)]
        @@ [c \in Range(LowerChars) |-> 96 + IndexIn(LowerChars, c)]
        @@ (" " :> 32) @@ ("-" :> 45) @@ ("_" :> 95)

CharCode(c) == CodeUnits[c]

AllChars == Range(DigitChars) \cup Range(UpperChars) \cup Range(LowerChars)
                \cup Range(OtherChars)

\* the other-case form of a letter (the i flag), the character itself otherwise
OtherCase ==
    [c \in Range(UpperChars) |-> LowerChars[IndexIn(UpperChars, c)]]
        @@ [c \in Range(LowerChars) |-> UpperChars[IndexIn(LowerChars, c)]]
        @@ [c \in Range(DigitChars) \cup Range(OtherChars) |-> c]

SwapCase(c) == OtherCase[c]

IndexOfFirst(s, c) ==
    IF \E i \in 1..Len(s) : s[i] = c
    THEN CHOOSE i \in 1..Len(s) : s[i] = c /\ \A j \in 1..(i - 1) : s[j] # c
    ELSE 0

IndexOfLast(s, c) ==
    IF \E i \in 1..Len(s) : s[i] = c
    THEN CHOOSE i \in 1..Len(s) : s[i] = c /\ \A j \in (i + 1)..Len(s) : s[j] # c
    ELSE 0

RECURSIVE ParseDecimal(_)
ParseDecimal(ds) ==
    IF ds = <<>> THEN 0
    ELSE ParseDecimal(SubSeq(ds, 1, Len(ds) - 1)) * 10
            + (IndexIn(DigitChars, ds[Len(ds)]) - 1)

(***************************************************************************)
(* The regular expressions the library builds: new RegExp(source, flags)   *)
(* for sources of the form  ^? (? item* )? $?  where an item is a character *)
(* class [..] or a literal character, optionally followed by {n}.          *)
(***************************************************************************)
RECURSIVE ClassSet(_)
ClassSet(cs) ==
    IF cs = <<>> THEN {}
    ELSE IF Len(cs) >= 3 /\ cs[2] = "-"
         THEN {c \in AllChars : CharCode(cs[1]) <= CharCode(c)
                                    /\ CharCode(c) <= CharCode(cs[3])}
                \cup ClassSet(SubSeq(cs, 4, Len(cs)))
         ELSE {cs[1]} \cup ClassSet(Tail(cs))

RECURSIVE Repeat(_, _)
Repeat(x, n) == IF n = 0 THEN <<>> ELSE <<x>> \o Repeat(x, n - 1)

\* the items of a pattern body, expanded to one character set per position
RECURSIVE ParseItems(_)
ParseItems(b) ==
    IF b = <<>> THEN <<>>
    ELSE LET atomEnd == IF b[1] = "[" THEN IndexOfFirst(b, "]") ELSE 1
             set == IF b[1] = "[" THEN ClassSet(SubSeq(b, 2, atomEnd - 1))
                    ELSE {b[1]}
             rest == SubSeq(b, atomEnd + 1, Len(b))
             hasCount == rest # <<>> /\ rest[1] = "{"
             countEnd == IF hasCount THEN IndexOfFirst(rest, "}") ELSE 0
             n == IF hasCount THEN ParseDecimal(SubSeq(rest, 2, countEnd - 1))
                  ELSE 1
         IN  Repeat(set, n) \o ParseItems(SubSeq(rest, countEnd + 1, Len(rest)))

AnchoredAtStart(source) == source # <<>> /\ source[1] = "^"
AnchoredAtEnd(source) == source # <<>> /\ source[Len(source)] = "$"

PatternBody(source) ==
    LET a == IF AnchoredAtStart(source) THEN Tail(source) ELSE source
        b == IF AnchoredAtEnd(a) THEN SubSeq(a, 1, Len(a) - 1) ELSE a
    IN  IF Len(b) >= 2 /\ b[1] = "(" /\ b[Len(b)] = ")"
        THEN SubSeq(b, 2, Len(b) - 1)
        ELSE b

\* mutant: every expression ignores case
IgnoreCaseAlways(flags) == TRUE

IgnoreCase(flags) == "i" \in Range(flags)

\* RegExp.prototype.exec on a non-global expression: is there a match?
\* The search tries every start position; ^ and $ pin the two ends.
RegExpExec(source, flags, str) ==
    LET classes == ParseItems(PatternBody(source))
    IN  \E pos \in 1..(Len(str) + 1) :
            /\ AnchoredAtStart(source) => pos = 1
            /\ AnchoredAtEnd(source) => pos + Len(classes) - 1 = Len(str)
            /\ pos + Len(classes) - 1 <= Len(str)
            /\ \A k \in 1..Len(classes) :
                   \/ str[pos + k - 1] \in classes[k]
                   \/ IgnoreCase(flags) /\ SwapCase(str[pos + k - 1]) \in classes[k]

(***************************************************************************)
(* class RadioModel                                                        *)
(***************************************************************************)
default_programming_language == "js"

\* mutant: the two slashes are kept in the source
regex_string_to_rule_slashes(regex_string) ==
    [kind |-> "RegExp", source |-> regex_string, flags |-> <<>>]

\* regex_string_to_rule: /\/(.*)\/(.*)/.exec(regex_string) takes the text
\* between the first and the last slash as the source and the rest as the
\* flags; without two slashes exec returns null and the destructuring throws.
regex_string_to_rule(regex_string) ==
    LET first == IndexOfFirst(regex_string, "/")
        last == IndexOfLast(regex_string, "/")
    IN  IF first = 0 \/ last = first
        THEN [kind |-> "throw", source |-> <<>>, flags |-> <<>>]
        ELSE [kind |-> "RegExp",
              source |-> SubSeq(regex_string, first + 1, last - 1),
              flags |-> SubSeq(regex_string, last + 1, Len(regex_string))]

\* serial_regex_pattern(): "" when the mapping has no entry for the language
serial_regex_pattern(this) ==
    IF this._serial_regex_patterns.t = "null"
    THEN [kind |-> "throw", source |-> <<>>, flags |-> <<>>]
    ELSE IF default_programming_language \notin DOMAIN this._serial_regex_patterns.m
    THEN [kind |-> "string", source |-> <<>>, flags |-> <<>>]
    ELSE regex_string_to_rule(
             this._serial_regex_patterns.m[default_programming_language])

\* extra_regex_pattern(): null when no mapping or no entry for the language
extra_regex_pattern(this) ==
    IF this._extra_regex_patterns.t = "null"
    THEN [kind |-> "null", source |-> <<>>, flags |-> <<>>]
    ELSE IF default_programming_language \notin DOMAIN this._extra_regex_patterns.m
    THEN [kind |-> "null", source |-> <<>>, flags |-> <<>>]
    ELSE regex_string_to_rule(
             this._extra_regex_patterns.m[default_programming_language])

\* String.prototype.match(rule) # null.  A RegExp is used as it is; a string
\* (or null) is first turned into a RegExp of that text, without flags.
StringMatch(str, rule) ==
    IF rule.kind = "RegExp" THEN RegExpExec(rule.source, rule.flags, str)
    ELSE IF rule.kind = "null" THEN RegExpExec(<<"n", "u", "l", "l">>, <<>>, str)
    ELSE RegExpExec(rule.source, <<>>, str)

\* mutant: the extra pattern is stored whatever extra_max_len is
RadioModelStoresExtra(name, serial_max_len, serial_pattern, extra_max_len_arg, extra_pattern_arg) ==
    LET extra_max_len == DefaultNumber(extra_max_len_arg, 0)
        extra_pattern == DefaultParam(extra_pattern_arg, JsNull)
        serial_patterns ==
            IF JsTypeof(serial_pattern) = "string"
            THEN JsObject([l \in {default_programming_language} |-> serial_pattern.s])
            ELSE IF JsTypeof(serial_pattern) = "object" THEN serial_pattern
            ELSE JsObject(<<>>)
    IN  IF JsTypeof(extra_pattern) = "string"
        THEN [thrown |-> TRUE, exc |-> "TypeError", obj |-> <<>>]
        ELSE [thrown |-> FALSE, exc |-> "none",
              obj |-> <<[name |-> name,
                         serial_max_len |-> serial_max_len,
                         _serial_regex_patterns |-> serial_patterns,
                         extra_max_len |-> extra_max_len,
                         _extra_regex_patterns |-> extra_pattern]>>]

\* constructor(name, serial_max_len, serial_regex_pattern, extra_max_len = 0,
\*             extra_regex_pattern = null)
\* The extra mapping starts as null, so storing a single pattern string
\* under the language key is an assignment to a property of null: TypeError.
RadioModel(name, serial_max_len, serial_pattern, extra_max_len_arg, extra_pattern_arg) ==
    LET extra_max_len == DefaultNumber(extra_max_len_arg, 0)
        extra_pattern == DefaultParam(extra_pattern_arg, JsNull)
        serial_patterns ==
            IF JsTypeof(serial_pattern) = "string"
            THEN JsObject([l \in {default_programming_language} |-> serial_pattern.s])
            ELSE IF JsTypeof(serial_pattern) = "object" THEN serial_pattern
            ELSE JsObject(<<>>)
        extra_patterns ==
            IF extra_max_len # 0 /\ JsTypeof(extra_pattern) = "object"
            THEN extra_pattern
            ELSE JsNull
    IN  IF extra_max_len # 0 /\ JsTypeof(extra_pattern) = "string"
        THEN [thrown |-> TRUE, exc |-> "TypeError", obj |-> <<>>]
        ELSE [thrown |-> FALSE, exc |-> "none",
              obj |-> <<[name |-> name,
                         serial_max_len |-> serial_max_len,
                         _serial_regex_patterns |-> serial_patterns,
                         extra_max_len |-> extra_max_len,
                         _extra_regex_patterns |-> extra_patterns]>>]

\* the bindings an identifier used inside the library module can resolve to:
\* its imports and its classes
ModuleBindings ==
    {"FormData", "fetch", "RadioErrors", "RadioModel", "RadioModels",
     "RadioCodeCalculator"}

\* mutant: extra data is ignored on a model that takes none
ExtraChecksIgnoredWithoutField(this, extra) ==
    IF extra.t # "null" /\ Len(extra.s) > 0 /\ this.extra_max_len # 0
    THEN IF Len(extra.s) # this.extra_max_len
         THEN Return(INVALID_EXTRA_LENGTH)
         ELSE IF "extra_regex_pattern" \notin ModuleBindings
              THEN Throw("ReferenceError")
              ELSE IF ~StringMatch(extra.s, extra_regex_pattern(this))
                   THEN Return(INVALID_EXTRA_PATTERN)
                   ELSE Return(SUCCESS)
    ELSE Return(SUCCESS)

\* validate(serial, extra = null)
\* Line 253 calls extra_regex_pattern() as a free identifier, not as a method
\* of this: the module has no such binding, so evaluating it throws.
ExtraChecks(this, extra) ==
    IF extra.t # "null" /\ Len(extra.s) > 0
    THEN IF Len(extra.s) # this.extra_max_len
         THEN Return(INVALID_EXTRA_LENGTH)
         ELSE IF "extra_regex_pattern" \notin ModuleBindings
              THEN Throw("ReferenceError")
              ELSE IF ~StringMatch(extra.s, extra_regex_pattern(this))
                   THEN Return(INVALID_EXTRA_PATTERN)
                   ELSE Return(SUCCESS)
    ELSE Return(SUCCESS)

\* mutant: the serial pattern is checked before the serial length
validatePatternFirst(this, serial, extra_arg) ==
    LET rule == serial_regex_pattern(this) IN
    IF rule.kind = "throw" THEN Throw("TypeError")
    ELSE IF ~StringMatch(serial, rule) THEN Return(INVALID_SERIAL_PATTERN)
    ELSE IF Len(serial) # this.serial_max_len THEN Return(INVALID_SERIAL_LENGTH)
    ELSE ExtraChecks(this, DefaultParam(extra_arg, JsNull))

\* mutant: an empty extra string is length-checked like any other
validateEmptyExtraChecked(this, serial, extra_arg) ==
    LET extra == DefaultParam(extra_arg, JsNull)
        rule == serial_regex_pattern(this)
    IN  IF Len(serial) # this.serial_max_len THEN Return(INVALID_SERIAL_LENGTH)
        ELSE IF rule.kind = "throw" THEN Throw("TypeError")
        ELSE IF ~StringMatch(serial, rule) THEN Return(INVALID_SERIAL_PATTERN)
        ELSE IF extra.t # "null" /\ Len(extra.s) # this.extra_max_len
             THEN Return(INVALID_EXTRA_LENGTH)
        ELSE ExtraChecks(this, extra)

\* mutant: the extra pattern is looked up before the extra length is checked
validateExtraPatternFirst(this, serial, extra_arg) ==
    LET extra == DefaultParam(extra_arg, JsNull)
        rule == serial_regex_pattern(this)
    IN  IF Len(serial) # this.serial_max_len THEN Return(INVALID_SERIAL_LENGTH)
        ELSE IF rule.kind = "throw" THEN Throw("TypeError")
        ELSE IF ~StringMatch(serial, rule) THEN Return(INVALID_SERIAL_PATTERN)
        ELSE IF extra.t # "null" /\ Len(extra.s) > 0
             THEN IF "extra_regex_pattern" \notin ModuleBindings
                  THEN Throw("ReferenceError")
                  ELSE IF ~StringMatch(extra.s, extra_regex_pattern(this))
                       THEN Return(INVALID_EXTRA_PATTERN)
                       ELSE IF Len(extra.s) # this.extra_max_len
                            THEN Return(INVALID_EXTRA_LENGTH)
                            ELSE Return(SUCCESS)
        ELSE Return(SUCCESS)

validate(this, serial, extra_arg) ==
    LET extra == DefaultParam(extra_arg, JsNull)
        rule == serial_regex_pattern(this)
    IN  IF Len(serial) # this.serial_max_len THEN Return(INVALID_SERIAL_LENGTH)
        ELSE IF rule.kind = "throw" THEN Throw("TypeError")
        ELSE IF ~StringMatch(serial, rule) THEN Return(INVALID_SERIAL_PATTERN)
        ELSE ExtraChecks(this, extra)

\* mutant: the length test is written as an assignment to the model's field
validateThisKeepsLength(this, serial, extra_arg) ==
    [this EXCEPT !.serial_max_len = Len(serial)]

\* mutant: the pattern found for the default language is kept as the
\* model's only pattern
validateThisCachesRule(this, serial, extra_arg) ==
    IF this._serial_regex_patterns.t = "object"
           /\ default_programming_language \in DOMAIN this._serial_regex_patterns.m
    THEN [this EXCEPT !._serial_regex_patterns =
             JsObject([l \in {default_programming_language} |->
                          this._serial_regex_patterns.m[l]])]
    ELSE this

\* the model object after validate(serial, extra) has run on it: validate
\* and the methods it calls assign no field, and the RegExp objects they
\* make (line 164) are new in every call and dropped at its end
validateThis(this, serial, extra_arg) == this

(***************************************************************************)
(* class RadioModels: the built-in catalog                                 *)
(***************************************************************************)

RENAULT_DACIA ==
    RadioModel("renault-dacia", 4,
        JsString(<<"/", "^", "(", "[", "A", "-", "Z", "]", "{", "1", "}", "[", "0", "-", "9", "]", "{", "3", "}", ")", "$", "/">>),
        NumberUndefined, JsUndefined).obj[1]

CHRYSLER_PANASONIC_TM9 ==
    RadioModel("chrysler-panasonic-tm9", 4,
        JsString(<<"/", "^", "(", "[", "0", "-", "9", "]", "{", "4", "}", ")", "$", "/">>),
        NumberUndefined, JsUndefined).obj[1]

FORD_M_SERIES ==
    RadioModel("ford-m-series", 6,
        JsString(<<"/", "^", "(", "[", "0", "-", "9", "]", "{", "6", "}", ")", "$", "/">>),
        NumberUndefined, JsUndefined).obj[1]

FORD_V_SERIES ==
    RadioModel("ford-v-series", 6,
        JsString(<<"/", "^", "(", "[", "0", "-", "9", "]", "{", "6", "}", ")", "$", "/">>),
        NumberUndefined, JsUndefined).obj[1]

FORD_TRAVELPILOT ==
    RadioModel("ford-travelpilot", 7,
        JsString(<<"/", "^", "(", "[", "0", "-", "9", "]", "{", "7", "}", ")", "$", "/">>),
        NumberUndefined, JsUndefined).obj[1]

FIAT_STILO_BRAVO_VISTEON ==
    RadioModel("fiat-stilo-bravo-visteon", 6,
        JsString(<<"/", "^", "(", "[", "a", "-", "z", "A", "-", "Z", "0", "-", "9", "]", "{", "6", "}", ")", "$", "/">>),
        NumberUndefined, JsUndefined).obj[1]

FIAT_DAIICHI ==
    RadioModel("fiat-daiichi", 4,
        JsString(<<"/", "^", "(", "[", "0", "-", "9", "]", "{", "4", "}", ")", "$", "/">>),
        NumberUndefined, JsUndefined).obj[1]

FIAT_VP ==
    RadioModel("fiat-vp", 4,
        JsString(<<"/", "^", "(", "[", "0", "-", "9", "]", "{", "4", "}", ")", "$", "/">>),
        NumberUndefined, JsUndefined).obj[1]

TOYOTA_ERC ==
    RadioModel("toyota-erc", 16,
        JsString(<<"/", "^", "(", "[", "a", "-", "z", "A", "-", "Z", "0", "-", "9", "]", "{", "1", "6", "}", ")", "$", "/">>),
        NumberUndefined, JsUndefined).obj[1]

JEEP_CHEROKEE ==
    RadioModel("jeep-cherokee", 14,
        JsString(<<"/", "^", "(", "[", "a", "-", "z", "A", "-", "Z", "0", "-", "9", "]", "{", "1", "0", "}", "[", "0", "-", "9", "]", "{", "4", "}", ")", "$", "/">>),
        NumberUndefined, JsUndefined).obj[1]

NISSAN_GLOVE_BOX ==
    RadioModel("nissan-glove-box", 12,
        JsString(<<"/", "^", "(", "[", "a", "-", "z", "A", "-", "Z", "0", "-", "9", "]", "{", "1", "2", "}", ")", "$", "/">>),
        NumberUndefined, JsUndefined).obj[1]

ECLIPSE_ESN ==
    RadioModel("eclipse-esn", 6,
        JsString(<<"/", "^", "(", "[", "a", "-", "z", "A", "-", "Z", "0", "-", "9", "]", "{", "6", "}", ")", "$", "/">>),
        NumberUndefined, JsUndefined).obj[1]

JAGUAR_ALPINE ==
    RadioModel("jaguar-alpine", 5,
        JsString(<<"/", "^", "(", "[", "0", "-", "9", "]", "{", "5", "}", ")", "$", "/">>),
        NumberUndefined, JsUndefined).obj[1]

CatalogKeys ==
    {"RENAULT_DACIA",
     "CHRYSLER_PANASONIC_TM9",
     "FORD_M_SERIES",
     "FORD_V_SERIES",
     "FORD_TRAVELPILOT",
     "FIAT_STILO_BRAVO_VISTEON",
     "FIAT_DAIICHI",
     "FIAT_VP",
     "TOYOTA_ERC",
     "JEEP_CHEROKEE",
     "NISSAN_GLOVE_BOX",
     "ECLIPSE_ESN",
     "JAGUAR_ALPINE"}

RadioModels(key) ==
    IF key = "RENAULT_DACIA" THEN RENAULT_DACIA
    ELSE IF key = "CHRYSLER_PANASONIC_TM9" THEN CHRYSLER_PANASONIC_TM9
    ELSE IF key = "FORD_M_SERIES" THEN FORD_M_SERIES
    ELSE IF key = "FORD_V_SERIES" THEN FORD_V_SERIES
    ELSE IF key = "FORD_TRAVELPILOT" THEN FORD_TRAVELPILOT
    ELSE IF key = "FIAT_STILO_BRAVO_VISTEON" THEN FIAT_STILO_BRAVO_VISTEON
    ELSE IF key = "FIAT_DAIICHI" THEN FIAT_DAIICHI
    ELSE IF key = "FIAT_VP" THEN FIAT_VP
    ELSE IF key = "TOYOTA_ERC" THEN TOYOTA_ERC
    ELSE IF key = "JEEP_CHEROKEE" THEN JEEP_CHEROKEE
    ELSE IF key = "NISSAN_GLOVE_BOX" THEN NISSAN_GLOVE_BOX
    ELSE IF key = "ECLIPSE_ESN" THEN ECLIPSE_ESN
    ELSE JAGUAR_ALPINE


(***************************************************************************)
(* Inputs                                                                  *)
(***************************************************************************)
\* the serial of each model in test_radio_codes()
FixtureKeys == CatalogKeys \ {"FIAT_VP", "JAGUAR_ALPINE"}

FixtureSerial(key) ==
    IF key = "RENAULT_DACIA" THEN <<"Z", "9", "9", "9">>
    ELSE IF key = "CHRYSLER_PANASONIC_TM9" THEN <<"1", "2", "3", "4">>
    ELSE IF key = "FORD_M_SERIES" THEN <<"1", "2", "3", "4", "5", "6">>
    ELSE IF key = "FORD_V_SERIES" THEN <<"1", "2", "3", "4", "5", "6">>
    ELSE IF key = "FORD_TRAVELPILOT" THEN <<"1", "2", "3", "4", "5", "6", "7">>
    ELSE IF key = "FIAT_STILO_BRAVO_VISTEON" THEN <<"9", "9", "9", "9", "9", "9">>
    ELSE IF key = "FIAT_DAIICHI" THEN <<"6", "4", "6", "1">>
    ELSE IF key = "TOYOTA_ERC" THEN <<"1", "0", "2", "1", "1", "3", "7", "6", "a", "b", "8", "e", "0", "d", "2", "5">>
    ELSE IF key = "JEEP_CHEROKEE" THEN <<"T", "Q", "1", "A", "A", "1", "5", "0", "0", "E", "2", "8", "8", "4">>
    ELSE IF key = "NISSAN_GLOVE_BOX" THEN <<"D", "4", "C", "D", "D", "C", "5", "6", "8", "4", "9", "8">>
    ELSE <<"7", "D", "4", "0", "4", "6">>
\* a serial of the right length for the two catalog models without a fixture
BaseSerial(key) ==
    IF key \in FixtureKeys THEN FixtureSerial(key)
    ELSE IF key = "FIAT_VP" THEN <<"1", "2", "3", "4">>
    ELSE <<"1", "2", "3", "4", "5">>

\* bounds of the input sets
MaxLengthDelta == 1
MaxSerialLen == 3
MaxExtraLen == 2
\* the number of validate calls a caller makes on one model
MaxValidations == 3

StringsUpTo(chars, n) == UNION {[1..k -> chars] : k \in 0..n}

ReplaceAt(s, p, c) == [i \in 1..Len(s) |-> IF i = p THEN c ELSE s[i]]

MutationChars == {"0", "9", "A", "Z", "a", "z", "-", " "}

\* serials tried on a catalog model: its base serial, the base serial with one
\* character replaced, shortened or lengthened, and the other models' serials
CatalogSerials(key) ==
    LET base == BaseSerial(key) IN
    {base}
        \cup {ReplaceAt(base, p, c) : p \in 1..Len(base), c \in MutationChars}
        \cup {SubSeq(base, 1, Len(base) - d) : d \in 1..MaxLengthDelta}
        \cup {base \o Repeat(c, d) : c \in {"1", "A"}, d \in 1..MaxLengthDelta}
        \cup {BaseSerial(k) : k \in CatalogKeys}
        \cup {<<>>, <<"1">>}

\* serials tried on a caller-constructed model
AdhocSerials == StringsUpTo({"1", "A"}, MaxSerialLen)

\* the extra argument: omitted (undefined), null, or a string
ExtraArgs ==
    {JsUndefined, JsNull} \cup {JsString(s) : s \in StringsUpTo({"1", "x"}, MaxExtraLen)}

TwoDigits == <<"/", "^", "(", "[", "0", "-", "9", "]", "{", "2", "}", ")", "$", "/">>
OneDigitAnywhere == <<"/", "[", "0", "-", "9", "]", "/">>
TwoLettersAnyCase == <<"/", "^", "[", "a", "-", "z", "]", "{", "2", "}", "$", "/", "i">>
NoSlashes == <<"[", "0", "-", "9", "]", "{", "2", "}">>

\* arguments of the constructor calls a caller makes
SerialPatternArgs ==
    {JsString(TwoDigits), JsString(OneDigitAnywhere), JsString(TwoLettersAnyCase),
     JsString(NoSlashes),
     JsObject([l \in {"js", "php"} |-> TwoDigits]),
     JsObject([l \in {"php"} |-> TwoDigits]),
     JsUndefined, JsNull}
ExtraPatternArgs ==
    {JsUndefined, JsNull, JsString(TwoDigits),
     JsObject([l \in {"js"} |-> TwoDigits]),
     JsObject([l \in {"php"} |-> TwoDigits])}
SerialMaxLens == {2}
ExtraMaxLens == {NumberUndefined, 0, 2}

(***************************************************************************)
(* JSON values of a response's error field and their comparison with a     *)
(* number:  ===  (type and value)  and  ==  (after conversion to a number) *)
(***************************************************************************)
JsonNumber(n) == [t |-> "number", n |-> n, s |-> <<>>]
JsonString(s) == [t |-> "string", n |-> 0, s |-> s]
JsonBoolean(b) == [t |-> "boolean", n |-> IF b THEN 1 ELSE 0, s |-> <<>>]
JsonNull == [t |-> "null", n |-> 0, s |-> <<>>]
JsonAbsent == [t |-> "undefined", n |-> 0, s |-> <<>>]

RECURSIVE TrimSpaces(_)
TrimSpaces(s) ==
    IF s # <<>> /\ s[1] = " " THEN TrimSpaces(Tail(s))
    ELSE IF s # <<>> /\ s[Len(s)] = " " THEN TrimSpaces(SubSeq(s, 1, Len(s) - 1))
    ELSE s

\* ToNumber of a string: blank is 0, decimal digits are their value, anything
\* else is NaN
StringToNumber(s) ==
    LET t == TrimSpaces(s) IN
    IF t = <<>> THEN [nan |-> FALSE, n |-> 0]
    ELSE IF \A i \in 1..Len(t) : t[i] \in Range(DigitChars)
         THEN [nan |-> FALSE, n |-> ParseDecimal(t)]
         ELSE [nan |-> TRUE, n |-> 0]

StrictEquals(v, k) == v.t = "number" /\ v.n = k

LooseEquals(v, k) ==
    IF v.t = "number" \/ v.t = "boolean" THEN v.n = k
    ELSE IF v.t = "string"
         THEN ~StringToNumber(v.s).nan /\ StringToNumber(v.s).n = k
         ELSE FALSE

(***************************************************************************)
(* The values a promise settles with: a parsed response, an error object   *)
(* built by the library, or a raw exception                                *)
(***************************************************************************)

\* the per-model fields of a response when it has none of them
NoFields ==
    [serialMaxLen |-> NumberUndefined, serialRegexPattern |-> JsUndefined,
     extraMaxLen |-> NumberUndefined, extraRegexPattern |-> JsUndefined]

\* a response of the server, as parsed from its JSON body
ServerResponse(error, code, info, list) ==
    [src |-> "server", error |-> error, error_message |-> "none", code |-> code,
     info |-> info, list |-> list, radioModel |-> <<>>, radioModels |-> <<>>]

\* the JSON text "null"
NullResponse ==
    [src |-> "null", error |-> JsonAbsent, error_message |-> "none", code |-> "",
     info |-> NoFields, list |-> <<>>, radioModel |-> <<>>, radioModels |-> <<>>]

\* { "error": code } and { "error": code, "error_message": e }
SdkError(code, message) ==
    [src |-> "sdk", error |-> JsonNumber(code), error_message |-> message,
     code |-> "", info |-> NoFields, list |-> <<>>, radioModel |-> <<>>,
     radioModels |-> <<>>]

\* an exception object: it has no error field
Exception(name) ==
    [src |-> "exception", error |-> JsonAbsent, error_message |-> name, code |-> "",
     info |-> NoFields, list |-> <<>>, radioModel |-> <<>>, radioModels |-> <<>>]

Pending == [state |-> "pending", value |-> <<>>]
Fulfilled(value) == [state |-> "fulfilled", value |-> <<value>>]
Rejected(value) == [state |-> "rejected", value |-> <<value>>]

(***************************************************************************)
(* class RadioCodeCalculator                                               *)
(***************************************************************************)
\* API_URL, line 313: the endpoint a new client is given
DefaultApiUrl == "https://www.pelock.com/api/radio-code-calculator/v1"

KeyUndefined == [t |-> "undefined", key |-> ""]
KeyNull == [t |-> "null", key |-> ""]
KeyString(k) == [t |-> "string", key |-> k]

\* constructor(api_key = null): the value of _apiKey
RadioCodeCalculator(api_key) == IF api_key.t = "undefined" THEN KeyNull ELSE api_key

\* the radio_model argument of calc and info: a string or a RadioModel
ModelString(s) == [t |-> "string", s |-> s, obj |-> <<>>]
ModelObject(obj) == [t |-> "object", s |-> "", obj |-> <<obj>>]
ModelName(radio_model) ==
    IF radio_model.t = "string" THEN radio_model.s ELSE radio_model.obj[1].name

\* the params array each operation builds, in insertion order
login_params == <<<<"command", "login">>>>
\* mutant: an empty extra is left out of the parameters
calc_paramsSkipEmptyExtra(radio_model, radio_serial_number, radio_extra_data) ==
    <<<<"command", "calc">>, <<"radio_model", ModelName(radio_model)>>,
      <<"serial", radio_serial_number>>>>
        \o (IF radio_extra_data \in {<<>>, <<"">>} THEN <<>>
            ELSE <<<<"extra", radio_extra_data[1]>>>>)

calc_params(radio_model, radio_serial_number, radio_extra_data) ==
    <<<<"command", "calc">>, <<"radio_model", ModelName(radio_model)>>,
      <<"serial", radio_serial_number>>,
      <<"extra", IF radio_extra_data = <<>> THEN "" ELSE radio_extra_data[1]>>>>
info_params(radio_model) ==
    <<<<"command", "info">>, <<"radio_model", ModelName(radio_model)>>>>
list_params == <<<<"command", "list">>>>

\* post_request, line 454: is the request refused for want of a key?
\* mutant: the key is compared with undefined
KeyMissingUndefined(apiKey) == apiKey.t = "undefined"

KeyMissing(apiKey) == apiKey.t = "null"

\* post_request, lines 461-468: the form sent, the key first
FormBody(apiKey, params_array) == <<<<"key", apiKey.key>>>> \o params_array

\* post_request, line 476, on the parsed response, with == ; reading a field
\* of null throws, and the exception goes to the catch handler of line 477
SettleOnResponse(response) ==
    IF response.src = "null"
    THEN Rejected(SdkError(ERROR_CONNECTION, "TypeError"))
    ELSE IF LooseEquals(response.error, SUCCESS) THEN Fulfilled(response)
    ELSE Rejected(response)

\* post_request, lines 477-480: the catch handler
\* mutant: the transport error itself is the rejection value
SettleOnFailureRaw(error) == Rejected(Exception(error))

SettleOnFailure(error) == Rejected(SdkError(ERROR_CONNECTION, error))

\* new RadioModel(...) from the fields of a response (info, and each entry
\* of list); a field the response lacks reads as undefined
ModelFromFields(name, fields) ==
    RadioModel(name, fields.serialMaxLen, fields.serialRegexPattern,
               fields.extraMaxLen, fields.extraRegexPattern)

\* info, lines 378-394: the callback on the fulfilled request.  An exception
\* thrown inside the new promise's executor rejects that promise.
\* mutant: the model is built and stored in the result before the error
\* code is looked at
InfoThenBuildsFirst(radio_model_name, result) ==
    LET made == ModelFromFields(radio_model_name, result.info) IN
    IF made.thrown THEN Rejected(Exception(made.exc))
    ELSE IF ~StrictEquals(result.error, SUCCESS)
         THEN Rejected([result EXCEPT !.radioModel = <<made.obj[1]>>])
         ELSE Fulfilled([result EXCEPT !.radioModel = <<made.obj[1]>>])

\* mutant: a response with an error code is dropped without settling
InfoThenDropsError(radio_model_name, result) ==
    IF ~StrictEquals(result.error, SUCCESS) THEN Pending
    ELSE LET made == ModelFromFields(radio_model_name, result.info) IN
         IF made.thrown THEN Rejected(Exception(made.exc))
         ELSE Fulfilled([result EXCEPT !.radioModel = <<made.obj[1]>>])

InfoThen(radio_model_name, result) ==
    IF ~StrictEquals(result.error, SUCCESS) THEN Rejected(result)
    ELSE LET made == ModelFromFields(radio_model_name, result.info) IN
         IF made.thrown THEN Rejected(Exception(made.exc))
         ELSE Fulfilled([result EXCEPT !.radioModel = <<made.obj[1]>>])

\* list, lines 409-436: one RadioModel per key of supportedRadioModels, in
\* the order of Object.keys
RECURSIVE ModelsFromEntries(_)
ModelsFromEntries(entries) ==
    IF entries = <<>> THEN [thrown |-> FALSE, exc |-> "none", models |-> <<>>]
    ELSE LET made == ModelFromFields(entries[1].name, entries[1].fields)
             rest == ModelsFromEntries(Tail(entries))
         IN  IF made.thrown THEN [thrown |-> TRUE, exc |-> made.exc, models |-> <<>>]
             ELSE IF rest.thrown THEN rest
             ELSE [thrown |-> FALSE, exc |-> "none",
                   models |-> <<made.obj[1]>> \o rest.models]

ListThen(result) ==
    IF ~StrictEquals(result.error, SUCCESS) THEN Rejected(result)
    ELSE IF result.list = <<>> THEN Rejected(Exception("TypeError"))
    ELSE LET made == ModelsFromEntries(result.list[1]) IN
         IF made.thrown THEN Rejected(Exception(made.exc))
         ELSE Fulfilled([result EXCEPT !.radioModels = <<made.models>>])

(***************************************************************************)
(* Inputs of the client operations                                         *)
(***************************************************************************)
\* the number of calls a caller may have in flight at once
MaxCalls == 2
CallIds == 1..MaxCalls

ApiKeyArgs == {KeyUndefined, KeyNull, KeyString(""), KeyString("ABCD-ABCD-ABCD-ABCD")}

ModelArgs ==
    {ModelString("ford-m-series"), ModelString("INVALID RADIO MODEL"),
     ModelObject(FORD_M_SERIES)}
SerialArgs == {"123456", "1", "12345A"}
ExtraDataArgs == {<<>>, <<"">>, <<"17">>}

\* the characters of the strings passed as serial and as extra data
SerialChars(str) ==
    IF str = "123456" THEN <<"1", "2", "3", "4", "5", "6">>
    ELSE IF str = "1" THEN <<"1">>
    ELSE IF str = "12345A" THEN <<"1", "2", "3", "4", "5", "A">>
    ELSE IF str = "17" THEN <<"1", "7">>
    ELSE <<>>

\* the argument list of a calc and of an info call, in the order the caller
\* passed it: the model first, then the serial and the extra data
CalcArgs(radio_model, radio_serial_number, radio_extra_data) ==
    <<radio_model, radio_serial_number, radio_extra_data>>
InfoArgs(radio_model) == <<radio_model>>
ParamsArgs == {<<<<"command", "INVALID COMMAND">>>>, login_params}

\* what fetch rejects with, and what response.json() rejects with
TransportErrors == {"ECONNREFUSED", "ENOTFOUND"}
BodyErrors == {"invalid-json"}

\* the error field of a response: the documented codes, a code outside the
\* enumeration, values of other JSON types, and no field at all
ErrorValues ==
    {JsonNumber(SUCCESS), JsonNumber(INVALID_INPUT), JsonNumber(INVALID_COMMAND),
     JsonNumber(INVALID_RADIO_MODEL), JsonNumber(INVALID_SERIAL_LENGTH),
     JsonNumber(INVALID_SERIAL_PATTERN), JsonNumber(INVALID_LICENSE),
     JsonNumber(999),
     JsonString(<<"0">>), JsonString(<<>>), JsonString(<<"3">>),
     JsonBoolean(FALSE), JsonBoolean(TRUE), JsonNull, JsonAbsent}

FieldsArgs ==
    {NoFields,
     [serialMaxLen |-> 6, serialRegexPattern |-> JsString(TwoDigits),
      extraMaxLen |-> 0, extraRegexPattern |-> JsUndefined],
     [serialMaxLen |-> 2, serialRegexPattern |-> JsObject([l \in {"js", "php"} |-> TwoDigits]),
      extraMaxLen |-> 2, extraRegexPattern |-> JsObject([l \in {"js", "php"} |-> TwoDigits])],
     [serialMaxLen |-> 2, serialRegexPattern |-> JsObject([l \in {"php"} |-> TwoDigits]),
      extraMaxLen |-> NumberUndefined, extraRegexPattern |-> JsNull],
     [serialMaxLen |-> 2, serialRegexPattern |-> JsString(TwoDigits),
      extraMaxLen |-> 2, extraRegexPattern |-> JsString(TwoDigits)]}

\* supportedRadioModels: absent, or a mapping given as its entries in key order
ListArgs ==
    {<<>>, <<<<>>>>}
        \cup {<<<<[name |-> "ford-m-series", fields |-> f]>>>> : f \in FieldsArgs}
        \cup {<<<<[name |-> "b-model", fields |-> f],
                  [name |-> "a-model", fields |-> g]>>>> :
                 f \in FieldsArgs \ {NoFields}, g \in FieldsArgs \ {NoFields}}

Responses(op) ==
    IF op = "info"
    THEN {ServerResponse(e, "", f, <<>>) : e \in ErrorValues, f \in FieldsArgs}
    ELSE IF op = "list"
    THEN {ServerResponse(e, "", NoFields, l) : e \in ErrorValues, l \in ListArgs}
    ELSE {ServerResponse(e, c, NoFields, <<>>) : e \in ErrorValues, c \in {"", "2487"}}

(***************************************************************************)
(* State                                                                   *)
(* The variables of a caller's script (examples, offline validation):      *)
(*   radioModel  the model the caller works with: <<>> until chosen, then  *)
(*               one record, a catalog entry or a constructed object       *)
(*   constructed the constructor call the caller made, if any              *)
(*   input       the serial and the extra data the caller holds            *)
(*   validated   the validate call on radioModel and its outcome           *)
(* The client and its calls:                                               *)
(*   apiKey      the _apiKey field of the RadioCodeCalculator instance     *)
(*   API_URL     its API_URL field, the endpoint requests are posted to    *)
(*   calls       per call: the operation, its params array, where the call *)
(*               stands (idle, fetch: request sent; json: body being       *)
(*               parsed; then: request promise settled, callback of info   *)
(*               or list pending; settled), what the transport delivered,  *)
(*               the promise of post_request and the promise info and list *)
(*               derive from it                                            *)
(*   network     the requests sent so far, in order                        *)
(***************************************************************************)
VARIABLES radioModel, constructed, input, validated, apiKey, API_URL, calls, network

validationVars == <<radioModel, constructed, input, validated>>
clientVars == <<apiKey, API_URL, calls, network>>
vars == <<radioModel, constructed, input, validated, apiKey, API_URL, calls, network>>

IdleCall ==
    [op |-> "none", args |-> <<>>, params |-> <<>>, phase |-> "idle",
     received |-> <<>>, failure |-> <<>>, post |-> Pending, derived |-> Pending]

InitValidation ==
    /\ radioModel = <<>>
    /\ constructed = <<>>
    /\ input = <<>>
    /\ validated = <<>>

\* the client is constructed with one of the keys, or with none
InitClient ==
    /\ apiKey \in {RadioCodeCalculator(k) : k \in ApiKeyArgs}
    /\ API_URL = DefaultApiUrl
    /\ calls = [id \in CallIds |-> IdleCall]
    /\ network = <<>>

(***************************************************************************)
(* Offline validation                                                      *)
(***************************************************************************)
\* let radioModel = RadioModels.<key>
SelectCatalogModel(key) ==
    /\ radioModel = <<>> /\ constructed = <<>>
    /\ radioModel' = <<[origin |-> "catalog", key |-> key, obj |-> RadioModels(key)]>>
    /\ UNCHANGED <<constructed, input, validated, clientVars>>

\* let radioModel = new RadioModel(name, serial_max_len, serial_pattern, ...)
ConstructModel(serial_max_len, serial_pattern, extra_max_len, extra_pattern) ==
    /\ radioModel = <<>> /\ constructed = <<>>
    /\ LET made == RadioModel("adhoc", serial_max_len, serial_pattern,
                              extra_max_len, extra_pattern)
       IN  /\ constructed' = <<[serial_max_len |-> serial_max_len,
                                serial_pattern |-> serial_pattern,
                                extra_max_len |-> extra_max_len,
                                extra_pattern |-> extra_pattern,
                                thrown |-> made.thrown, exc |-> made.exc]>>
           /\ radioModel' =
                  IF made.thrown THEN <<>>
                  ELSE <<[origin |-> "constructed", key |-> "none", obj |-> made.obj[1]]>>
    /\ UNCHANGED <<input, validated, clientVars>>

\* let serial = ...; let extra = ...;
SetInput(serial, extra) ==
    /\ radioModel # <<>> /\ input = <<>>
    /\ input' = <<[serial |-> serial, extra |-> extra]>>
    /\ UNCHANGED <<radioModel, constructed, validated, clientVars>>

\* let error = radioModel.validate(serial, extra)
Validate ==
    /\ radioModel # <<>> /\ input # <<>>
    /\ validated' = <<[this |-> radioModel[1].obj, key |-> radioModel[1].key,
                       serial |-> input[1].serial, extra |-> input[1].extra,
                       outcome |-> validate(radioModel[1].obj, input[1].serial,
                                            input[1].extra)]>>
    /\ radioModel' = <<[radioModel[1] EXCEPT
                           !.obj = validateThis(@, input[1].serial, input[1].extra)]>>
    /\ UNCHANGED <<constructed, input, clientVars>>

\* serial = ...; extra = ...;  (the caller turns to other inputs)
ChangeInput(serial, extra) ==
    /\ radioModel # <<>>
    /\ input' = <<[serial |-> serial, extra |-> extra]>>
    /\ UNCHANGED <<radioModel, constructed, validated, clientVars>>

\* error = radioModel.validate(serial, extra), once more: the caller keeps
\* every outcome
ValidateAgain ==
    /\ radioModel # <<>> /\ input # <<>>
    /\ Len(validated) < MaxValidations
    /\ validated' = Append(validated,
           [this |-> radioModel[1].obj, key |-> radioModel[1].key,
            serial |-> input[1].serial, extra |-> input[1].extra,
            outcome |-> validate(radioModel[1].obj, input[1].serial,
                                 input[1].extra)])
    /\ radioModel' = <<[radioModel[1] EXCEPT
                           !.obj = validateThis(@, input[1].serial, input[1].extra)]>>
    /\ UNCHANGED <<constructed, input, clientVars>>

SerialsFor(m) == IF m.origin = "catalog" THEN CatalogSerials(m.key) ELSE AdhocSerials

(***************************************************************************)
(* Client operations.  Each operation builds its params and runs the       *)
(* executor of post_request's promise at once: without a key the promise   *)
(* is rejected on the spot, with one the form is posted.                   *)
(***************************************************************************)
Derives(op) == op \in {"info", "list"}
AfterRequest(op) == IF Derives(op) THEN "then" ELSE "settled"

\* the promise the operation returned to its caller
Returned(call) == IF Derives(call.op) THEN call.derived ELSE call.post

\* args: the arguments the caller gave the operation, kept with the call
post_request(id, op, args, params_array) ==
    /\ calls[id].phase = "idle"
    /\ IF KeyMissing(apiKey)
       THEN /\ calls' = [calls EXCEPT ![id] =
                    [@ EXCEPT !.op = op, !.args = args, !.params = params_array,
                              !.phase = AfterRequest(op),
                              !.post = Rejected(SdkError(INVALID_LICENSE, "none"))]]
            /\ UNCHANGED network
       ELSE /\ calls' = [calls EXCEPT ![id] =
                    [@ EXCEPT !.op = op, !.args = args, !.params = params_array,
                              !.phase = "fetch"]]
            /\ network' = Append(network, [id |-> id, body |-> FormBody(apiKey, params_array)])
    /\ UNCHANGED <<apiKey, API_URL, validationVars>>

login(id) == post_request(id, "login", <<>>, login_params)

\* mutant: calc validates the serial and the extra data on the model object
\* first and refuses, without a request, what validate does not accept
calcValidating(id, radio_model, radio_serial_number, radio_extra_data) ==
    LET outcome ==
            IF radio_model.t = "object"
            THEN validate(radio_model.obj[1], SerialChars(radio_serial_number),
                          IF radio_extra_data = <<>> THEN JsUndefined
                          ELSE JsString(SerialChars(radio_extra_data[1])))
            ELSE Return(SUCCESS)
    IN  IF Returns(outcome, SUCCESS)
        THEN post_request(id, "calc",
                 CalcArgs(radio_model, radio_serial_number, radio_extra_data),
                 calc_params(radio_model, radio_serial_number, radio_extra_data))
        ELSE /\ calls[id].phase = "idle"
             /\ calls' = [calls EXCEPT ![id] =
                    [@ EXCEPT !.op = "calc",
                              !.args = CalcArgs(radio_model, radio_serial_number,
                                                radio_extra_data),
                              !.params = calc_params(radio_model, radio_serial_number,
                                                     radio_extra_data),
                              !.phase = "settled",
                              !.post = Rejected(SdkError(
                                  IF outcome.kind = "return" THEN outcome.code
                                  ELSE INVALID_INPUT, "none"))]]
             /\ UNCHANGED <<apiKey, API_URL, network, validationVars>>

calc(id, radio_model, radio_serial_number, radio_extra_data) ==
    post_request(id, "calc",
        CalcArgs(radio_model, radio_serial_number, radio_extra_data),
        calc_params(radio_model, radio_serial_number, radio_extra_data))

info(id, radio_model) ==
    post_request(id, "info", InfoArgs(radio_model), info_params(radio_model))

list(id) == post_request(id, "list", <<>>, list_params)

PostRequest(id, params_array) == post_request(id, "post_request", <<>>, params_array)

\* mutant: a request that failed is sent once more before the call gives up
FetchRejectsRetry(id, error) ==
    /\ calls[id].phase = "fetch"
    /\ IF calls[id].failure = <<>>
       THEN /\ calls' = [calls EXCEPT ![id] = [@ EXCEPT !.failure = <<error>>]]
            /\ network' = Append(network,
                   [id |-> id, body |-> FormBody(apiKey, calls[id].params)])
       ELSE /\ calls' = [calls EXCEPT ![id] =
                   [@ EXCEPT !.phase = AfterRequest(calls[id].op),
                             !.failure = <<error>>,
                             !.post = SettleOnFailure(error)]]
            /\ UNCHANGED network
    /\ UNCHANGED <<apiKey, API_URL, validationVars>>

\* mutant: default_error is one object shared by all calls, so the message
\* stored for this failure shows in every call already rejected with it
FetchRejectsShared(id, error) ==
    /\ calls[id].phase = "fetch"
    /\ calls' = [j \in CallIds |->
           IF j = id
           THEN [calls[j] EXCEPT !.phase = AfterRequest(calls[id].op),
                                 !.failure = <<error>>,
                                 !.post = SettleOnFailure(error)]
           ELSE IF calls[j].failure # <<>>
                THEN [calls[j] EXCEPT
                         !.post = SettleOnFailure(error),
                         !.derived = IF @.state = "rejected"
                                     THEN SettleOnFailure(error) ELSE @]
                ELSE calls[j]]
    /\ UNCHANGED <<apiKey, API_URL, network, validationVars>>

\* fetch rejects: the catch handler settles the request promise
FetchRejects(id, error) ==
    /\ calls[id].phase = "fetch"
    /\ calls' = [calls EXCEPT ![id] =
           [@ EXCEPT !.phase = AfterRequest(calls[id].op), !.failure = <<error>>,
                     !.post = SettleOnFailure(error)]]
    /\ UNCHANGED <<apiKey, API_URL, network, validationVars>>

\* fetch fulfils with the HTTP response: response.json() starts
FetchFulfils(id) ==
    /\ calls[id].phase = "fetch"
    /\ calls' = [calls EXCEPT ![id] = [@ EXCEPT !.phase = "json"]]
    /\ UNCHANGED <<apiKey, API_URL, network, validationVars>>

\* response.json() rejects: the body is no JSON text
JsonRejects(id, error) ==
    /\ calls[id].phase = "json"
    /\ calls' = [calls EXCEPT ![id] =
           [@ EXCEPT !.phase = AfterRequest(calls[id].op), !.failure = <<error>>,
                     !.post = SettleOnFailure(error)]]
    /\ UNCHANGED <<apiKey, API_URL, network, validationVars>>

\* response.json() fulfils with the parsed body: line 476 settles the promise
JsonFulfils(id, response) ==
    /\ calls[id].phase = "json"
    /\ calls' = [calls EXCEPT ![id] =
           [@ EXCEPT !.phase = AfterRequest(calls[id].op), !.received = <<response>>,
                     !.post = SettleOnResponse(response)]]
    /\ UNCHANGED <<apiKey, API_URL, network, validationVars>>

\* the then() of info and list: a rejected request promise rejects the derived
\* promise with the same value; a fulfilled one runs the callback, whose
\* result object is the response object itself, with a field added
ThenCallback(id) ==
    /\ calls[id].phase = "then"
    /\ LET call == calls[id]
           settled ==
               IF call.post.state = "rejected" THEN call.post
               ELSE IF call.op = "info"
                    THEN InfoThen(call.params[2][2], call.post.value[1])
                    ELSE ListThen(call.post.value[1])
       IN  calls' = [calls EXCEPT ![id] =
               [@ EXCEPT !.phase = "settled", !.derived = settled,
                         !.post = IF settled.state = "fulfilled" THEN settled ELSE @]]
    /\ UNCHANGED <<apiKey, API_URL, network, validationVars>>

(***************************************************************************)
(* Specifications                                                          *)
(***************************************************************************)
\* the offline validation, by a caller's script
Init ==
    /\ InitValidation
    /\ apiKey = KeyNull
    /\ API_URL = DefaultApiUrl
    /\ calls = [id \in CallIds |-> IdleCall]
    /\ network = <<>>

Next ==
    \/ \E key \in CatalogKeys : SelectCatalogModel(key)
    \/ \E sl \in SerialMaxLens, sp \in SerialPatternArgs,
          el \in ExtraMaxLens, ep \in ExtraPatternArgs : ConstructModel(sl, sp, el, ep)
    \/ \E serial \in (IF radioModel = <<>> THEN {} ELSE SerialsFor(radioModel[1])),
          extra \in ExtraArgs : SetInput(serial, extra)
    \/ Validate

Spec == Init /\ [][Next]_vars

\* one call of a client operation, from the call to its settlement
ClientInit == InitValidation /\ InitClient

ClientStep(id) ==
    \/ login(id)
    \/ \E m \in ModelArgs, s \in SerialArgs, e \in ExtraDataArgs : calc(id, m, s, e)
    \/ \E m \in ModelArgs : info(id, m)
    \/ list(id)
    \/ \E p \in ParamsArgs : PostRequest(id, p)
    \/ \E error \in TransportErrors : FetchRejects(id, error)
    \/ FetchFulfils(id)
    \/ \E error \in BodyErrors : JsonRejects(id, error)
    \/ \E response \in Responses(calls[id].op) \cup {NullResponse} : JsonFulfils(id, response)
    \/ ThenCallback(id)

ClientNext == ClientStep(1)

ClientSpec == ClientInit /\ [][ClientNext]_vars

\* the same call when the transport answers every request it was given (it
\* delivers a response or fails, and a body it delivered is parsed or found
\* unparsable) and the job queue runs the callbacks registered with then()
TransportAnswers(id) ==
    \/ \E error \in TransportErrors : FetchRejects(id, error)
    \/ FetchFulfils(id)
    \/ \E error \in BodyErrors : JsonRejects(id, error)
    \/ \E response \in Responses(calls[id].op) \cup {NullResponse} : JsonFulfils(id, response)

FairClientSpec ==
    /\ ClientInit
    /\ [][ClientNext]_vars
    /\ WF_vars(TransportAnswers(1))
    /\ WF_vars(ThenCallback(1))

\* a caller that validates again and again, on changing inputs, while a call
\* of the client is under way
RepeatKeys == {"FORD_M_SERIES", "RENAULT_DACIA"}

RepeatSerials(m) ==
    IF m.origin = "catalog"
    THEN {BaseSerial(m.key), ReplaceAt(BaseSerial(m.key), 1, "a"), <<"1">>}
    ELSE {<<"1", "1">>, <<"A", "A">>, <<"1">>}

RepeatExtras == {JsUndefined, JsString(<<"1", "1">>)}

\* the patterns of the model the caller constructs, the model object of the
\* call under way and the response the server gives it
RepeatSerialPatterns == {JsString(TwoLettersAnyCase), JsObject([l \in {"php"} |-> TwoDigits])}
RepeatExtraPattern == JsObject([l \in {"js"} |-> TwoDigits])
RepeatCalcModel == ModelObject(FORD_M_SERIES)
RepeatResponse == ServerResponse(JsonNumber(INVALID_SERIAL_LENGTH), "", NoFields, <<>>)

RepeatInit ==
    /\ InitValidation
    /\ apiKey = KeyString("ABCD-ABCD-ABCD-ABCD")
    /\ API_URL = DefaultApiUrl
    /\ calls = [id \in CallIds |-> IdleCall]
    /\ network = <<>>

RepeatNext ==
    \/ \E key \in RepeatKeys : SelectCatalogModel(key)
    \/ \E sp \in RepeatSerialPatterns : ConstructModel(2, sp, 2, RepeatExtraPattern)
    \/ \E serial \in (IF radioModel = <<>> THEN {} ELSE RepeatSerials(radioModel[1])),
          extra \in RepeatExtras : ChangeInput(serial, extra)
    \/ ValidateAgain
    \/ calc(1, RepeatCalcModel, "1", <<>>)
    \/ FetchRejects(1, "ECONNREFUSED")
    \/ FetchFulfils(1)
    \/ JsonFulfils(1, RepeatResponse)

RepeatSpec == RepeatInit /\ [][RepeatNext]_vars

\* calls issued on one client without awaiting one another, as the loop of
\* test_radio_codes() does: each call goes its own way from the request to
\* its settlement, in any interleaving with the others
ConcurrentKeys == {KeyNull, KeyString("ABCD-ABCD-ABCD-ABCD")}

ConcurrentCalcArgs ==
    {<<ModelObject(FORD_M_SERIES), "1", <<>>>>,
     <<ModelString("INVALID RADIO MODEL"), "123456", <<"17">>>>}

ConcurrentInfoArgs == {ModelObject(FORD_M_SERIES), ModelString("ford-m-series")}

ConcurrentResponses(op) ==
    IF op = "info"
    THEN {ServerResponse(e, "", f, <<>>) :
              e \in {JsonNumber(SUCCESS), JsonNumber(INVALID_RADIO_MODEL)},
              f \in {[serialMaxLen |-> 2,
                      serialRegexPattern |-> JsObject([l \in {"js", "php"} |-> TwoDigits]),
                      extraMaxLen |-> 0, extraRegexPattern |-> JsUndefined]}}
    ELSE IF op = "list"
    THEN {ServerResponse(e, "", NoFields, l) :
              e \in {JsonNumber(SUCCESS), JsonNumber(INVALID_LICENSE)},
              l \in {<<<<[name |-> "b-model",
                          fields |-> [serialMaxLen |-> 6,
                                      serialRegexPattern |-> JsString(TwoDigits),
                                      extraMaxLen |-> 0,
                                      extraRegexPattern |-> JsUndefined]],
                         [name |-> "a-model",
                          fields |-> [serialMaxLen |-> 2,
                                      serialRegexPattern |-> JsString(TwoDigits),
                                      extraMaxLen |-> 0,
                                      extraRegexPattern |-> JsUndefined]]>>>>}}
    ELSE {ServerResponse(JsonNumber(SUCCESS), "2487", NoFields, <<>>),
          ServerResponse(JsonNumber(INVALID_SERIAL_LENGTH), "", NoFields, <<>>)}

ConcurrentInit ==
    /\ InitValidation
    /\ apiKey \in {RadioCodeCalculator(k) : k \in ConcurrentKeys}
    /\ API_URL = DefaultApiUrl
    /\ calls = [id \in CallIds |-> IdleCall]
    /\ network = <<>>

ConcurrentStep(id) ==
    \/ login(id)
    \/ \E a \in ConcurrentCalcArgs : calc(id, a[1], a[2], a[3])
    \/ \E m \in ConcurrentInfoArgs : info(id, m)
    \/ list(id)
    \/ PostRequest(id, <<<<"command", "INVALID COMMAND">>>>)
    \/ FetchRejects(id, "ECONNREFUSED")
    \/ FetchFulfils(id)
    \/ JsonRejects(id, "invalid-json")
    \/ \E response \in ConcurrentResponses(calls[id].op) : JsonFulfils(id, response)
    \/ ThenCallback(id)

ConcurrentNext == \E id \in CallIds : ConcurrentStep(id)

ConcurrentSpec == ConcurrentInit /\ [][ConcurrentNext]_vars

\* a caller that works with one model: validates on it and passes it to the
\* client's operations
FrameModelArgs ==
    IF radioModel = <<>> THEN {} ELSE {ModelObject(radioModel[1].obj)}

FrameSerialPatterns ==
    {JsString(TwoLettersAnyCase), JsObject([l \in {"js", "php"} |-> TwoDigits])}

FrameNext ==
    \/ \E key \in RepeatKeys : SelectCatalogModel(key)
    \/ \E sp \in FrameSerialPatterns : ConstructModel(2, sp, 2, RepeatExtraPattern)
    \/ \E serial \in (IF radioModel = <<>> THEN {} ELSE RepeatSerials(radioModel[1])),
          extra \in RepeatExtras : ChangeInput(serial, extra)
    \/ Validate
    \/ login(1)
    \/ \E m \in FrameModelArgs, e \in ExtraDataArgs : calc(1, m, "1", e)
    \/ \E m \in FrameModelArgs : info(1, m)
    \/ list(1)
    \/ FetchRejects(1, "ECONNREFUSED")
    \/ FetchFulfils(1)
    \/ JsonRejects(1, "invalid-json")
    \/ \E response \in ConcurrentResponses(calls[1].op) : JsonFulfils(1, response)
    \/ ThenCallback(1)

FrameSpec == ClientInit /\ [][FrameNext]_vars

(***************************************************************************)
(* Properties of the offline validation (specification Spec)               *)
(***************************************************************************)
\* the serial of the validate call passes the length and the pattern check
SerialPasses(v) ==
    /\ Len(v.serial) = v.this.serial_max_len
    /\ serial_regex_pattern(v.this).kind # "throw"
    /\ StringMatch(v.serial, serial_regex_pattern(v.this))

ExtraOmitted(extra) == extra \in {JsUndefined, JsNull, JsString(<<>>)}

Alphanumeric == Range(DigitChars) \cup Range(UpperChars) \cup Range(LowerChars)

\* the characters a catalog model's pattern allows at position p of a serial
AllowedAt(key, p) ==
    IF key = "RENAULT_DACIA"
    THEN IF p = 1 THEN Range(UpperChars) ELSE Range(DigitChars)
    ELSE IF key = "JEEP_CHEROKEE"
    THEN IF p <= 10 THEN Alphanumeric ELSE Range(DigitChars)
    ELSE IF key \in {"FIAT_STILO_BRAVO_VISTEON", "TOYOTA_ERC", "NISSAN_GLOVE_BOX",
                     "ECLIPSE_ESN"}
    THEN Alphanumeric
    ELSE Range(DigitChars)

\* C1: validate(serial), called without extra data on a catalog model with the
\* serial its test fixture documents, returns SUCCESS.
C1_FixturesValidate ==
    \A i \in 1..Len(validated) :
        LET v == validated[i] IN
        (v.key \in FixtureKeys /\ v.serial = FixtureSerial(v.key)
            /\ v.extra = JsUndefined)
        => Returns(v.outcome, SUCCESS)

C1_Witness ==
    /\ validated # <<>>
    /\ validated[1].key = "TOYOTA_ERC"
    /\ validated[1].serial = FixtureSerial("TOYOTA_ERC")
    /\ validated[1].extra = JsUndefined
    /\ Returns(validated[1].outcome, SUCCESS)

\* C2: a serial whose length differs from serial_max_len makes validate return
\* INVALID_SERIAL_LENGTH, for every model, whatever the serial's characters,
\* the serial pattern and the extra argument are.
C2_LengthCheckedFirst ==
    \A i \in 1..Len(validated) :
        LET v == validated[i] IN
        Len(v.serial) # v.this.serial_max_len
        => Returns(v.outcome, INVALID_SERIAL_LENGTH)

C2_Witness ==
    /\ validated # <<>>
    /\ validated[1].key = "FORD_M_SERIES"
    /\ validated[1].serial = <<"1">>
    /\ validated[1].extra = JsString(<<"x">>)
    /\ Returns(validated[1].outcome, INVALID_SERIAL_LENGTH)

\* C3: on a catalog model, a serial of exactly serial_max_len characters with a
\* character outside the class its pattern allows at that position makes
\* validate return INVALID_SERIAL_PATTERN, whatever the extra argument is.
C3_BadCharacterRejected ==
    \A i \in 1..Len(validated) :
        LET v == validated[i] IN
        (/\ v.key \in CatalogKeys
         /\ Len(v.serial) = v.this.serial_max_len
         /\ \E p \in 1..Len(v.serial) : v.serial[p] \notin AllowedAt(v.key, p))
        => Returns(v.outcome, INVALID_SERIAL_PATTERN)

C3_Witness ==
    /\ validated # <<>>
    /\ validated[1].key = "FORD_M_SERIES"
    /\ validated[1].serial = <<"1", "2", "3", "4", "5", "A">>
    /\ Returns(validated[1].outcome, INVALID_SERIAL_PATTERN)

\* C4 (as claimed): on a model with extra_max_len > 0 and an extra pattern of
\* its own for the default language, with a serial that passes both checks and
\* a non-empty extra of exactly extra_max_len characters, validate returns
\* INVALID_EXTRA_PATTERN when extra does not match the pattern and SUCCESS
\* when it does; it returns an error code in both cases.
C4_ExtraPatternDecides ==
    \A i \in 1..Len(validated) :
        LET v == validated[i]
            rule == extra_regex_pattern(v.this)
        IN  (/\ v.this.extra_max_len > 0
             /\ SerialPasses(v)
             /\ v.extra.t = "string" /\ v.extra.s # <<>>
             /\ Len(v.extra.s) = v.this.extra_max_len
             /\ rule.kind = "RegExp")
            => /\ v.outcome.kind = "return"
               /\ StringMatch(v.extra.s, rule) => Returns(v.outcome, SUCCESS)
               /\ ~StringMatch(v.extra.s, rule)
                      => Returns(v.outcome, INVALID_EXTRA_PATTERN)

\* C5: with a serial that passes both checks, a non-null, non-empty extra whose
\* length differs from extra_max_len makes validate return
\* INVALID_EXTRA_LENGTH; the extra pattern is not looked at before.
C5_ExtraLengthChecked ==
    \A i \in 1..Len(validated) :
        LET v == validated[i] IN
        (/\ SerialPasses(v)
         /\ v.extra.t = "string" /\ v.extra.s # <<>>
         /\ Len(v.extra.s) # v.this.extra_max_len)
        => Returns(v.outcome, INVALID_EXTRA_LENGTH)

C5_Witness ==
    /\ validated # <<>>
    /\ validated[1].this.extra_max_len = 2
    /\ extra_regex_pattern(validated[1].this).kind = "RegExp"
    /\ SerialPasses(validated[1])
    /\ validated[1].extra = JsString(<<"x">>)
    /\ Returns(validated[1].outcome, INVALID_EXTRA_LENGTH)

\* C6: with a serial that passes both checks, validate(serial),
\* validate(serial, null) and validate(serial, "") return SUCCESS, also on a
\* model with extra_max_len > 0.
C6_OmittedExtraSkipped ==
    \A i \in 1..Len(validated) :
        LET v == validated[i] IN
        (SerialPasses(v) /\ ExtraOmitted(v.extra)) => Returns(v.outcome, SUCCESS)

C6_Witness ==
    /\ validated # <<>>
    /\ validated[1].this.extra_max_len = 2
    /\ SerialPasses(validated[1])
    /\ validated[1].extra = JsString(<<>>)
    /\ Returns(validated[1].outcome, SUCCESS)

(***************************************************************************)
(* Properties of the client operations (specification ClientSpec)          *)
(***************************************************************************)
\* the promise is rejected with an object made by the library whose error
\* field is the number code
RejectedWithCode(promise, code) ==
    /\ promise.state = "rejected"
    /\ promise.value[1].src = "sdk"
    /\ promise.value[1].error = JsonNumber(code)

\* a call made without a key: the request promise is rejected with
\* INVALID_LICENSE at once, the returned promise is never fulfilled and is
\* rejected with INVALID_LICENSE once settled, and nothing was sent
RefusedWithoutRequest(call) ==
    /\ network = <<>>
    /\ RejectedWithCode(call.post, INVALID_LICENSE)
    /\ Returned(call).state # "fulfilled"
    /\ call.phase = "settled" => RejectedWithCode(Returned(call), INVALID_LICENSE)

\* C7: on a client constructed without an activation key (null, the default),
\* login, calc, info, list and post_request reject with an error object whose
\* error field is INVALID_LICENSE, and no request is sent.
C7_NoKeyRefused ==
    \A id \in CallIds :
        (apiKey = KeyNull /\ calls[id].op # "none") => RefusedWithoutRequest(calls[id])

C7_Witness ==
    /\ apiKey = KeyNull
    /\ calls[1].op = "info"
    /\ calls[1].phase = "settled"
    /\ RejectedWithCode(calls[1].derived, INVALID_LICENSE)
    /\ network = <<>>

\* C8 (as claimed): on a client constructed with the empty string as its
\* activation key, login, calc, info and list fail with INVALID_LICENSE and no
\* request is sent, as with no key.
C8_EmptyKeyRefused ==
    \A id \in CallIds :
        (apiKey = KeyString("") /\ calls[id].op \in {"login", "calc", "info", "list"})
        => RefusedWithoutRequest(calls[id])

\* C9: with a key configured, when fetch rejects or the body is no JSON, the
\* call rejects with an object whose error field is ERROR_CONNECTION and whose
\* error_message is the transport error: the promise is never fulfilled and
\* never rejected with the raw exception.
C9_TransportFailure ==
    \A id \in CallIds :
        LET call == calls[id] IN
        call.failure # <<>>
        => /\ RejectedWithCode(call.post, ERROR_CONNECTION)
           /\ call.post.value[1].error_message = call.failure[1]
           /\ Returned(call).state # "fulfilled"
           /\ call.phase = "settled"
                  => /\ RejectedWithCode(Returned(call), ERROR_CONNECTION)
                     /\ Returned(call).value[1].error_message = call.failure[1]

C9_Witness ==
    /\ apiKey.t = "string"
    /\ calls[1].op = "list"
    /\ calls[1].failure = <<"invalid-json">>
    /\ calls[1].phase = "settled"
    /\ RejectedWithCode(calls[1].derived, ERROR_CONNECTION)
    /\ calls[1].derived.value[1].error_message = "invalid-json"

\* C10 (as claimed): for every parsed response object, the promise of
\* post_request is fulfilled with the unmodified response exactly when the
\* response's error field is SUCCESS (0), and is rejected with the unmodified
\* response otherwise.
C10_FulfilsExactlyOnSuccess ==
    \A id \in CallIds :
        LET call == calls[id] IN
        (/\ call.received # <<>>
         /\ call.received[1].src = "server"
         /\ call.phase = AfterRequest(call.op))
        => IF call.received[1].error = JsonNumber(SUCCESS)
           THEN call.post = Fulfilled(call.received[1])
           ELSE call.post = Rejected(call.received[1])

\* C11: with a key configured, calc never validates offline: whatever the
\* model, the serial and the extra data (also ones validate would refuse) the
\* request is sent with the serial as given, the call stays pending until the
\* transport answers, and it settles with the server's response object:
\* fulfilled when its integer error code is SUCCESS, rejected otherwise.  An
\* error object made by the library appears on a transport failure only.
C11_CalcDelegates ==
    \A id \in CallIds :
        LET call == calls[id] IN
        (call.op = "calc" /\ apiKey.t = "string")
        => /\ \E k \in 1..Len(network) :
                  /\ network[k].id = id
                  /\ network[k].body[4] = <<"serial", call.args[2]>>
           /\ call.phase \in {"fetch", "json"} => call.post = Pending
           /\ (call.post.state = "rejected" /\ call.post.value[1].src = "sdk")
                  => (call.failure # <<>> \/ call.received = <<NullResponse>>)
           /\ (call.phase = "settled" /\ call.received # <<>>
                   /\ call.received[1].src = "server")
                  => /\ call.post.value[1] = call.received[1]
                     /\ call.received[1].error.t = "number"
                            => (call.post.state = "fulfilled"
                                   <=> call.received[1].error.n = SUCCESS)

C11_Witness ==
    /\ apiKey.t = "string"
    /\ calls[1].op = "calc"
    /\ calls[1].args[1] = ModelObject(FORD_M_SERIES)
    /\ calls[1].args[2] = "1"
    /\ Returns(validate(FORD_M_SERIES, SerialChars("1"), JsUndefined),
               INVALID_SERIAL_LENGTH)
    /\ calls[1].phase = "settled"
    /\ calls[1].received # <<>>
    /\ calls[1].received[1].error = JsonNumber(SUCCESS)
    /\ calls[1].post = Fulfilled(calls[1].received[1])

\* the model name an operation is to use for its radio_model argument
RequestedName(radio_model) ==
    IF radio_model.t = "string" THEN radio_model.s ELSE radio_model.obj[1].name

\* a pattern field as a mapping: a single string under the default language,
\* a mapping as it is, none when the field is absent or null
Promoted(pattern) ==
    IF pattern.t = "string" THEN JsObject([l \in {"js"} |-> pattern.s])
    ELSE IF pattern.t = "object" THEN pattern
    ELSE JsNull

\* model carries the name and mirrors the four fields
Mirrors(model, name, fields) ==
    /\ model.name = name
    /\ model.serial_max_len = fields.serialMaxLen
    /\ model.extra_max_len = fields.extraMaxLen
    /\ model._serial_regex_patterns = Promoted(fields.serialRegexPattern)
    /\ model._extra_regex_patterns = Promoted(fields.extraRegexPattern)

\* the fields are of the shapes the server documents
WellShaped(fields) ==
    /\ fields.serialMaxLen >= 0
    /\ fields.extraMaxLen >= 0
    /\ fields.serialRegexPattern.t \in {"string", "object"}

\* C13 (as claimed): on a success response of info, and for every entry of a
\* success response of list, the call fulfils with a RadioModel whose
\* serial_max_len, extra_max_len, serial pattern mapping and extra pattern
\* mapping equal the payload's serialMaxLen, extraMaxLen, serialRegexPattern
\* and extraRegexPattern, whatever their shape; the model of info carries the
\* requested name.
C13_ModelMirrorsPayload ==
    \A id \in CallIds :
        LET call == calls[id] IN
        (/\ call.phase = "settled"
         /\ call.received # <<>>
         /\ call.received[1].src = "server"
         /\ call.received[1].error = JsonNumber(SUCCESS))
        => /\ (call.op = "info" /\ WellShaped(call.received[1].info))
                  => /\ call.derived.state = "fulfilled"
                     /\ Mirrors(call.derived.value[1].radioModel[1],
                                RequestedName(call.args[1]),
                                call.received[1].info)
           /\ (/\ call.op = "list"
               /\ call.received[1].list # <<>>
               /\ \A i \in 1..Len(call.received[1].list[1]) :
                      WellShaped(call.received[1].list[1][i].fields))
                  => /\ call.derived.state = "fulfilled"
                     /\ \A i \in 1..Len(call.received[1].list[1]) :
                            Mirrors(call.derived.value[1].radioModels[1][i],
                                    call.received[1].list[1][i].name,
                                    call.received[1].list[1][i].fields)

\* C14 (as claimed): on a success response, list fulfils with a radioModels
\* sequence holding one RadioModel per key of supportedRadioModels, in the
\* order of the keys, the i-th model named by the i-th key.
C14_ListKeepsEntries ==
    \A id \in CallIds :
        LET call == calls[id] IN
        (/\ call.op = "list"
         /\ call.phase = "settled"
         /\ call.received # <<>>
         /\ call.received[1].src = "server"
         /\ call.received[1].error = JsonNumber(SUCCESS)
         /\ call.received[1].list # <<>>)
        => /\ call.derived.state = "fulfilled"
           /\ LET entries == call.received[1].list[1]
                  radio_models == call.derived.value[1].radioModels[1]
              IN  /\ Len(radio_models) = Len(entries)
                  /\ \A i \in 1..Len(entries) : radio_models[i].name = entries[i].name

\* C15: for info and list, a server response whose error code is not SUCCESS
\* never fulfils the call; the call ends rejected with the response object as
\* it was received, no radioModel or radioModels field added, no model built.
C15_ErrorBeforeDerived ==
    \A id \in CallIds :
        LET call == calls[id] IN
        (/\ call.op \in {"info", "list"}
         /\ call.received # <<>>
         /\ call.received[1].src = "server"
         /\ call.received[1].error # JsonNumber(SUCCESS))
        => /\ call.derived.state # "fulfilled"
           /\ call.phase = "settled"
                  => /\ call.derived = Rejected(call.received[1])
                     /\ call.derived.value[1].radioModel = <<>>
                     /\ call.derived.value[1].radioModels = <<>>

\* the error field "0" passes the == of post_request, so the callback of info
\* runs, and its !== refuses the response before a model is built
C15_Witness ==
    /\ calls[1].op = "info"
    /\ calls[1].phase = "settled"
    /\ calls[1].received # <<>>
    /\ calls[1].received[1].error = JsonString(<<"0">>)
    /\ calls[1].received[1].info.extraRegexPattern.t = "string"
    /\ calls[1].post.state = "fulfilled"
    /\ calls[1].derived = Rejected(calls[1].received[1])

(***************************************************************************)
(* Properties of calls made side by side (specification ConcurrentSpec)    *)
(***************************************************************************)
\* C12: every request sent holds the key first, then the parameters of the
\* call it was sent for, in order: login and list the command alone, info
\* the command and radio_model, calc the command, radio_model, serial and
\* extra (the empty string when none was given); radio_model is the string
\* passed or the name of the RadioModel passed.  Nothing else is sent.
C12_RequestBody ==
    \A k \in 1..Len(network) :
        LET body == network[k].body
            call == calls[network[k].id]
            key == <<"key", apiKey.key>>
        IN  /\ body[1] = key
            /\ call.op = "login" => body = <<key, <<"command", "login">>>>
            /\ call.op = "list" => body = <<key, <<"command", "list">>>>
            /\ call.op = "info"
                   => body = <<key, <<"command", "info">>,
                               <<"radio_model", RequestedName(call.args[1])>>>>
            /\ call.op = "calc"
                   => body = <<key, <<"command", "calc">>,
                               <<"radio_model", RequestedName(call.args[1])>>,
                               <<"serial", call.args[2]>>,
                               <<"extra", IF call.args[3] = <<>> THEN ""
                                          ELSE call.args[3][1]>>>>

C12_Witness ==
    /\ Len(network) = 2
    /\ calls[1].op = "calc"
    /\ calls[1].args[1] = ModelObject(FORD_M_SERIES)
    /\ calls[1].args[3] = <<>>
    /\ calls[2].op = "info"
    /\ calls[2].args[1] = ModelString("ford-m-series")
    /\ network[1] = [id |-> 2,
                     body |-> <<<<"key", "ABCD-ABCD-ABCD-ABCD">>, <<"command", "info">>,
                                <<"radio_model", "ford-m-series">>>>]
    /\ network[2] = [id |-> 1,
                     body |-> <<<<"key", "ABCD-ABCD-ABCD-ABCD">>, <<"command", "calc">>,
                                <<"radio_model", "ford-m-series">>,
                                <<"serial", "1">>, <<"extra", "">>>>]

\* the number of requests sent for a call
RequestsOf(sent, id) == Cardinality({k \in 1..Len(sent) : sent[k].id = id})

\* C16: a call settles at most once: a promise that has been fulfilled or
\* rejected stays as it is, whatever happens next on this or another call,
\* and a call in its last phase has settled.  A call sends at most one
\* request: one when the client holds a key, none when it holds none.  No
\* request is repeated and no call is answered without a request of its own.
C16_SettlesOnce ==
    [][\A id \in CallIds :
          /\ Returned(calls[id]).state # "pending"
                 => Returned(calls'[id]) = Returned(calls[id])
          /\ calls[id].post.state # "pending"
                 => calls'[id].post.state = calls[id].post.state
          /\ calls'[id].phase = "settled" => Returned(calls'[id]).state # "pending"
          /\ RequestsOf(network', id) <= 1
          /\ (calls'[id].op # "none" /\ apiKey.t = "string" /\ apiKey.key # "")
                 => RequestsOf(network', id) = 1
          /\ apiKey = KeyNull => RequestsOf(network', id) = 0
          /\ calls'[id].received # <<>> => RequestsOf(network', id) = 1]_vars

\* two calls, one failed and one answered, each with its one request
C16_Witness ==
    /\ apiKey.t = "string"
    /\ calls[1].phase = "settled"
    /\ calls[1].failure = <<"ECONNREFUSED">>
    /\ calls[1].post.state = "rejected"
    /\ calls[2].phase = "settled"
    /\ calls[2].op = calls[1].op
    /\ calls[2].params = calls[1].params
    /\ calls[2].post.state = "fulfilled"
    /\ Len(network) = 2
    /\ RequestsOf(network, 1) = 1
    /\ RequestsOf(network, 2) = 1

\* C17: calls in flight together do not interfere.  Each request carries the
\* key and the parameters of its own call only; a call that has settled did
\* so by what its own request met: its own transport failure gives
\* ERROR_CONNECTION with that failure as error_message, its own response is
\* the value it settles with (rejected unless the error code is SUCCESS);
\* and two calls with the same operation, arguments and answer end alike.
C17_CallsIndependent ==
    /\ \A k \in 1..Len(network) :
           network[k].body = <<<<"key", apiKey.key>>>> \o calls[network[k].id].params
    /\ \A id \in CallIds :
           LET call == calls[id] IN
           call.phase = "settled"
           => /\ ~(call.failure # <<>> /\ call.received # <<>>)
              /\ call.failure # <<>>
                     => /\ Returned(call).state = "rejected"
                        /\ Returned(call).value[1].error = JsonNumber(ERROR_CONNECTION)
                        /\ Returned(call).value[1].error_message = call.failure[1]
              /\ call.received # <<>>
                     => /\ Returned(call).value[1].error = call.received[1].error
                        /\ Returned(call).value[1].code = call.received[1].code
                        /\ Returned(call).value[1].info = call.received[1].info
                        /\ Returned(call).value[1].list = call.received[1].list
                        /\ Returned(call).state = "fulfilled"
                               <=> call.received[1].error = JsonNumber(SUCCESS)
    /\ \A i, j \in CallIds :
           (/\ calls[i].phase = "settled" /\ calls[j].phase = "settled"
            /\ calls[i].op = calls[j].op
            /\ calls[i].args = calls[j].args
            /\ calls[i].received = calls[j].received
            /\ calls[i].failure = calls[j].failure)
           => Returned(calls[i]) = Returned(calls[j])

\* the second call failed first in the body, the first one in the transport:
\* each holds its own failure
C17_Witness ==
    /\ Len(network) = 2
    /\ network[1].id = 1 /\ network[2].id = 2
    /\ calls[1].op = "list" /\ calls[2].op = "calc"
    /\ calls[1].phase = "settled" /\ calls[2].phase = "settled"
    /\ calls[1].failure = <<"ECONNREFUSED">>
    /\ calls[2].failure = <<"invalid-json">>
    /\ calls[1].derived.value[1].error_message = "ECONNREFUSED"
    /\ calls[2].post.value[1].error_message = "invalid-json"

(***************************************************************************)
(* Properties of repeated validation (specification RepeatSpec)            *)
(***************************************************************************)
\* C18: validate has no hidden state: however many validate calls were made
\* on a model, on whatever inputs, and whatever the client did meanwhile,
\* two calls with the same serial and extra have the same outcome, and the
\* model object every call runs on is the one the first call ran on.
C18_ValidateRepeatable ==
    \A i, j \in 1..Len(validated) :
        /\ validated[i].this = validated[j].this
        /\ (validated[i].serial = validated[j].serial
                /\ validated[i].extra = validated[j].extra)
               => validated[i].outcome = validated[j].outcome

\* the same input before and after another one with another outcome, the
\* client's call having been answered meanwhile
C18_Witness ==
    /\ Len(validated) = 3
    /\ validated[1].key = "FORD_M_SERIES"
    /\ validated[1].serial = <<"1">>
    /\ validated[3].serial = <<"1">>
    /\ validated[1].extra = validated[3].extra
    /\ validated[2].serial = BaseSerial("FORD_M_SERIES")
    /\ Returns(validated[1].outcome, INVALID_SERIAL_LENGTH)
    /\ Returns(validated[2].outcome, SUCCESS)
    /\ Returns(validated[3].outcome, INVALID_SERIAL_LENGTH)
    /\ calls[1].phase = "settled"

(***************************************************************************)
(* Properties of constructed models (specification Spec)                   *)
(***************************************************************************)
\* C19 (as claimed): the constructor takes a single pattern string or a
\* per-language mapping for the serial pattern and for the extra pattern
\* alike, storing a string as a one-entry mapping under "js" and a mapping as
\* given; with extra_max_len > 0 and a single-string extra pattern the
\* construction succeeds and extra_regex_pattern() returns that pattern.
C19_ConstructorPromotes ==
    constructed # <<>>
    => LET c == constructed[1] IN
       (/\ c.serial_pattern.t \in {"string", "object"}
        /\ c.extra_pattern.t \in {"string", "object"}
        /\ c.extra_max_len > 0)
       => /\ ~c.thrown
          /\ radioModel # <<>>
          /\ radioModel[1].obj._serial_regex_patterns = Promoted(c.serial_pattern)
          /\ radioModel[1].obj._extra_regex_patterns = Promoted(c.extra_pattern)
          /\ c.extra_pattern.t = "string"
                 => extra_regex_pattern(radioModel[1].obj)
                        = regex_string_to_rule(c.extra_pattern.s)

\* C20 (as claimed): a model whose serial pattern mapping has no entry for
\* the default language never validates successfully: validate returns no
\* SUCCESS for any serial, also not for one of exactly serial_max_len
\* characters.
C20_NoDefaultPatternNoSuccess ==
    \A i \in 1..Len(validated) :
        LET v == validated[i] IN
        (/\ v.this._serial_regex_patterns.t = "object"
         /\ default_programming_language \notin DOMAIN v.this._serial_regex_patterns.m)
        => ~Returns(v.outcome, SUCCESS)

(***************************************************************************)
(* Properties of a caller working with one model (specification FrameSpec) *)
(***************************************************************************)
\* C21: no operation changes what exists: whatever step is taken (validate,
\* with the pattern lookups it makes, login, calc, info, list, and what
\* follows them), the model the caller holds and passes keeps its name,
\* lengths and pattern mappings, a catalog model is the catalog's entry as
\* it was built, and the client's key and endpoint stay as they were.
C21_NothingChanged ==
    [][/\ radioModel # <<>> => radioModel' = radioModel
       /\ (radioModel' # <<>> /\ radioModel'[1].origin = "catalog")
              => radioModel'[1].obj = RadioModels(radioModel'[1].key)
       /\ apiKey' = apiKey
       /\ API_URL' = API_URL]_vars

C21_Witness ==
    /\ radioModel # <<>>
    /\ radioModel[1].origin = "constructed"
    /\ DOMAIN radioModel[1].obj._serial_regex_patterns.m = {"js", "php"}
    /\ validated # <<>>
    /\ Returns(validated[1].outcome, SUCCESS)
    /\ calls[1].op = "info"
    /\ calls[1].args[1] = ModelObject(radioModel[1].obj)
    /\ calls[1].phase = "settled"
    /\ calls[1].derived.state = "fulfilled"
    /\ apiKey = KeyString("ABCD-ABCD-ABCD-ABCD")
    /\ API_URL = DefaultApiUrl

(***************************************************************************)
(* Properties of a call on an answering transport (FairClientSpec)         *)
(***************************************************************************)
\* C22: every call eventually settles: when the transport answers each
\* request, a call of login, calc, info or list, once made, is eventually
\* fulfilled or rejected, on every path (no key, transport failure, error
\* response, success response).
C22_EventuallySettles ==
    (calls[1].op \in {"login", "calc", "info", "list"})
        ~> (Returned(calls[1]).state \in {"fulfilled", "rejected"})

\* info on a response the constructor refuses: settled all the same
C22_Witness ==
    /\ calls[1].op = "info"
    /\ calls[1].received # <<>>
    /\ calls[1].received[1].error = JsonNumber(SUCCESS)
    /\ calls[1].received[1].info.extraRegexPattern.t = "string"
    /\ calls[1].phase = "settled"
    /\ calls[1].derived.state = "rejected"

(***************************************************************************)
(* Further properties of the offline validation (specification Spec)       *)
(***************************************************************************)
\* the whole of str, from its first to its last character, matches the rule
FullMatch(str, rule) ==
    LET classes == ParseItems(PatternBody(rule.source)) IN
    /\ Len(classes) = Len(str)
    /\ \A k \in 1..Len(str) :
           \/ str[k] \in classes[k]
           \/ IgnoreCase(rule.flags) /\ SwapCase(str[k]) \in classes[k]

\* C23 (as claimed): the serial pattern check is a full match: on every model,
\* also one whose pattern has no ^ and $, a serial of exactly serial_max_len
\* characters gets INVALID_SERIAL_PATTERN unless the whole serial matches
\* the pattern; a serial only a part of which matches is rejected.
C23_SerialFullMatch ==
    \A i \in 1..Len(validated) :
        LET v == validated[i]
            rule == serial_regex_pattern(v.this)
        IN  (/\ Len(v.serial) = v.this.serial_max_len
             /\ rule.kind = "RegExp"
             /\ ~FullMatch(v.serial, rule))
            => Returns(v.outcome, INVALID_SERIAL_PATTERN)

\* C24: a model constructed with extra_max_len 0 (given, or left out) stores
\* no extra patterns, whatever was passed as the extra pattern (nothing,
\* null, a string or a mapping), and its extra_regex_pattern() returns null;
\* and serial_regex_pattern() returns the empty string, not a pattern, when
\* the serial mapping has no entry for the default language.
C24_NoExtraWithoutLength ==
    (radioModel # <<>> /\ constructed # <<>>)
    => LET this == radioModel[1].obj IN
       /\ constructed[1].extra_max_len \in {0, NumberUndefined}
              => /\ this.extra_max_len = 0
                 /\ this._extra_regex_patterns = JsNull
                 /\ extra_regex_pattern(this).kind = "null"
       /\ (/\ this._serial_regex_patterns.t = "object"
           /\ "js" \notin DOMAIN this._serial_regex_patterns.m)
              => serial_regex_pattern(this)
                     = [kind |-> "string", source |-> <<>>, flags |-> <<>>]

C24_Witness ==
    /\ constructed # <<>>
    /\ constructed[1].extra_max_len = 0
    /\ constructed[1].extra_pattern = JsObject([l \in {"js"} |-> TwoDigits])
    /\ constructed[1].serial_pattern = JsObject([l \in {"php"} |-> TwoDigits])
    /\ radioModel # <<>>
    /\ radioModel[1].obj._extra_regex_patterns = JsNull
    /\ serial_regex_pattern(radioModel[1].obj).kind = "string"

\* C27: on a model that takes no extra data (extra_max_len 0, as every
\* catalog model), with a serial that passes both serial checks, validate
\* with any non-empty extra returns INVALID_EXTRA_LENGTH and never SUCCESS:
\* extra data given to such a model is an error, it is not ignored.
C27_UnusedExtraRefused ==
    \A i \in 1..Len(validated) :
        LET v == validated[i] IN
        (/\ v.this.extra_max_len = 0
         /\ SerialPasses(v)
         /\ v.extra.t = "string"
         /\ v.extra.s # <<>>)
        => /\ Returns(v.outcome, INVALID_EXTRA_LENGTH)
           /\ \A key \in CatalogKeys : RadioModels(key).extra_max_len = 0

C27_Witness ==
    /\ validated # <<>>
    /\ validated[1].key = "JAGUAR_ALPINE"
    /\ validated[1].this.extra_max_len = 0
    /\ validated[1].serial = BaseSerial("JAGUAR_ALPINE")
    /\ validated[1].extra = JsString(<<"x">>)
    /\ Returns(validated[1].outcome, INVALID_EXTRA_LENGTH)

(***************************************************************************)
(* Further properties of the client operations (specification ClientSpec)  *)
(***************************************************************************)
\* C25 (as claimed): a response whose error code is SUCCESS but which lacks
\* the fields the operation reads (list: supportedRadioModels; info:
\* serialMaxLen or serialRegexPattern) makes the call reject with an object
\* whose error field is ERROR_CONNECTION: the call neither fulfils nor
\* rejects with a raw exception.
C25_MissingFieldsAreFailures ==
    \A id \in CallIds :
        LET call == calls[id] IN
        (/\ call.phase = "settled"
         /\ call.received # <<>>
         /\ call.received[1].src = "server"
         /\ call.received[1].error = JsonNumber(SUCCESS)
         /\ \/ call.op = "list" /\ call.received[1].list = <<>>
            \/ /\ call.op = "info"
               /\ \/ call.received[1].info.serialMaxLen = NumberUndefined
                  \/ call.received[1].info.serialRegexPattern.t = "undefined")
        => RejectedWithCode(call.derived, ERROR_CONNECTION)

\* C26 (as claimed): the operations agree on which responses are successes:
\* whatever the error field of the response (also "0", "" or false, which
\* are not the integer 0 but loosely equal it), the success check inside
\* info and list never rejects a response post_request has accepted; info
\* and list reject with the response only where login, calc or post_request
\* would.
C26_SuccessChecksAgree ==
    \A id \in CallIds :
        LET call == calls[id] IN
        (/\ call.op \in {"info", "list"}
         /\ call.phase = "settled"
         /\ call.received # <<>>
         /\ call.received[1].src = "server"
         /\ call.derived = Rejected(call.received[1]))
        => call.post.state = "rejected"

====
